---- MODULE Spec2Model ----
(***************************************************************************)
(* Congestion Game Simulator: the Frank-Wolfe traffic assignment of        *)
(* backend/app/main.py (class TrafficAssignment, the cost function         *)
(* evaluators, the path enumeration, format_results and the /compute       *)
(* endpoint), as a state machine.                                          *)
(*                                                                         *)
(* Numbers.  The program computes in binary floating point; the model      *)
(* computes in exact rational arithmetic.  A rational is a pair <<n, d>>   *)
(* in lowest terms with d > 0.  Python's round(x, 4) is modelled as        *)
(* rounding to a multiple of 1/10000.                                      *)
(*                                                                         *)
(* Exceptions.  A Python float expression either has a value or raises     *)
(* ZeroDivisionError (0.0 ** e for e < 0, x / 0.0).  Each evaluator is a   *)
(* record [ok, v]: ok says that it returns, v is what it returns.  The     *)
(* zero flows that reach such an expression are Python floats: the edge    *)
(* flows of a solve's initialisation and, in compute_optimal_tolls, the    *)
(* flow of an edge that no path traverses.                                 *)
(***************************************************************************)
EXTENDS Integers, Sequences, FiniteSets, TLC

\* ------------------------------------------------------------ rationals

Abs(i) == IF i < 0 THEN -i ELSE i

RECURSIVE GCD(_, _)
GCD(a, b) == IF b = 0 THEN a ELSE GCD(b, a % b)

NormG(n, d, g) ==
  IF d < 0 THEN <<(-n) \div g, (-d) \div g>> ELSE <<n \div g, d \div g>>

Norm(n, d) == IF n = 0 THEN <<0, 1>> ELSE NormG(n, d, GCD(Abs(n), Abs(d)))

Q(i) == <<i, 1>>
Zero == <<0, 1>>
One == <<1, 1>>
Half == <<1, 2>>

\* The operations cancel common factors before they multiply, to keep the
\* intermediate integers small.
RAddG(x, y, g) ==
  Norm(x[1] * (y[2] \div g) + y[1] * (x[2] \div g), (x[2] \div g) * y[2])
RAdd(x, y) == RAddG(x, y, GCD(x[2], y[2]))
RNeg(x) == <<-x[1], x[2]>>
RSub(x, y) == RAdd(x, RNeg(y))
RMulG(x, y, g1, g2) ==
  Norm((x[1] \div g1) * (y[1] \div g2), (x[2] \div g2) * (y[2] \div g1))
RMul(x, y) == RMulG(x, y, GCD(Abs(x[1]), y[2]), GCD(Abs(y[1]), x[2]))
RInv(y) == IF y[1] < 0 THEN <<-y[2], -y[1]>> ELSE <<y[2], y[1]>>
RQuot(x, y) == RMul(x, RInv(y))
\* x / y where y may be 0 (the value is not used where the division raises).
RQuot0(x, y) == IF y[1] = 0 THEN Zero ELSE RQuot(x, y)

\* a/b < c/d for b, d > 0, by the continued fractions of both sides (no
\* products of numerators and denominators).
RECURSIVE FracLess(_, _, _, _)
FracLessR(b, d, q1, q2, r1, r2) ==
  IF q1 # q2 THEN q1 < q2
  ELSE IF r2 = 0 THEN FALSE
  ELSE IF r1 = 0 THEN TRUE
  ELSE FracLess(d, r2, b, r1)
FracLess(a, b, c, d) == FracLessR(b, d, a \div b, c \div d, a % b, c % d)

RLess(x, y) == FracLess(x[1], x[2], y[1], y[2])
RLeq(x, y) == ~RLess(y, x)
RAbs(x) == <<Abs(x[1]), x[2]>>
RMin(x, y) == IF RLess(y, x) THEN y ELSE x
RMax(x, y) == IF RLess(x, y) THEN y ELSE x

RECURSIVE RSumSeq(_)
RSumSeq(s) == IF s = <<>> THEN Zero ELSE RAdd(s[1], RSumSeq(Tail(s)))

RECURSIVE RMaxSeq(_)
RMaxSeq(s) == IF Len(s) = 1 THEN s[1] ELSE RMax(s[1], RMaxSeq(Tail(s)))

SeqToSet(s) == {s[i] : i \in 1..Len(s)}

\* ------------------------------------------- Python arithmetic that may raise

\* x ** e for a float x and an integral exponent e.
RECURSIVE PowValue(_, _)
PowValue(x, e) ==
  IF e = 0 THEN One
  ELSE IF e > 0 THEN RMul(x, PowValue(x, e - 1))
  ELSE IF x = Zero THEN Zero
  ELSE RInv(PowValue(x, -e))

\* 0.0 ** e raises ZeroDivisionError for e < 0.
PowRaises(x, e) == e < 0 /\ x = Zero

\* ------------------------------------------------ cost function evaluation
\* EdgeCostFunction: function_type, a, k, b (polynomial a*f^k + b) and
\* free_flow_time, capacity, alpha, beta (bpr T*(1 + alpha*(f/C)^beta)).
\* The parameters are integers here; k and beta are integral exponents.

Polynomial(a, k, b) ==
  [function_type |-> "polynomial", a |-> a, k |-> k, b |-> b,
   free_flow_time |-> 1, capacity |-> 1, alpha |-> 1, beta |-> 4]

Bpr(T, C, alpha, beta) ==
  [function_type |-> "bpr", a |-> 1, k |-> 1, b |-> 0,
   free_flow_time |-> T, capacity |-> C, alpha |-> alpha, beta |-> beta]

\* ratio of evaluate_cost.
CostRatio(cost_func, flow) ==
  IF cost_func.capacity > 0 THEN RQuot(flow, Q(cost_func.capacity)) ELSE Zero

evaluate_cost(cost_func, flow) ==
  IF cost_func.function_type = "bpr"
  THEN [ok |-> ~PowRaises(CostRatio(cost_func, flow), cost_func.beta),
        v |-> RMul(Q(cost_func.free_flow_time),
                   RAdd(One, RMul(Q(cost_func.alpha),
                                  PowValue(CostRatio(cost_func, flow),
                                           cost_func.beta))))]
  ELSE [ok |-> ~PowRaises(flow, cost_func.k),
        v |-> RAdd(RMul(Q(cost_func.a), PowValue(flow, cost_func.k)),
                   Q(cost_func.b))]

evaluate_cost_derivative(cost_func, flow) ==
  IF cost_func.function_type = "bpr"
  THEN IF cost_func.capacity <= 0 THEN [ok |-> TRUE, v |-> Zero]
       ELSE [ok |-> ~PowRaises(RQuot(flow, Q(cost_func.capacity)),
                               cost_func.beta - 1),
             v |-> RQuot(RMul(Q(cost_func.free_flow_time * cost_func.alpha
                                * cost_func.beta),
                              PowValue(RQuot(flow, Q(cost_func.capacity)),
                                       cost_func.beta - 1)),
                         Q(cost_func.capacity))]
  ELSE IF cost_func.k = 0 \/ flow = Zero THEN [ok |-> TRUE, v |-> Zero]
       ELSE [ok |-> ~PowRaises(flow, cost_func.k - 1),
             v |-> RMul(Q(cost_func.a * cost_func.k),
                        PowValue(flow, cost_func.k - 1))]

\* t(f) + f * t'(f) of the two evaluations c and d.
MarginalOf(c, d, flow) ==
  [ok |-> c.ok /\ d.ok, v |-> RAdd(c.v, RMul(flow, d.v))]

\* A marginal cost with the sign of the flow term turned round.
MarginalCostMinus(cost_func, flow) ==
  [ok |-> evaluate_cost(cost_func, flow).ok /\ evaluate_cost_derivative(cost_func, flow).ok,
   v |-> RSub(evaluate_cost(cost_func, flow).v,
              RMul(flow, evaluate_cost_derivative(cost_func, flow).v))]

evaluate_marginal_cost(cost_func, flow) ==
  MarginalOf(evaluate_cost(cost_func, flow),
             evaluate_cost_derivative(cost_func, flow), flow)

\* (beta + 1) * (C ** beta), the divisor of the bpr integral.
BprDivisor(cost_func) ==
  RMul(Q(cost_func.beta + 1), PowValue(Q(cost_func.capacity), cost_func.beta))

evaluate_integral(cost_func, flow) ==
  IF cost_func.function_type = "bpr"
  THEN IF cost_func.capacity <= 0
       THEN [ok |-> TRUE, v |-> RMul(Q(cost_func.free_flow_time), flow)]
       ELSE [ok |-> /\ ~PowRaises(flow, cost_func.beta + 1)
                    /\ BprDivisor(cost_func) # Zero,
             v |-> RAdd(RMul(Q(cost_func.free_flow_time), flow),
                        RQuot0(RMul(Q(cost_func.free_flow_time * cost_func.alpha),
                                    PowValue(flow, cost_func.beta + 1)),
                               BprDivisor(cost_func)))]
  ELSE [ok |-> ~PowRaises(flow, cost_func.k + 1) /\ cost_func.k + 1 # 0,
        v |-> RAdd(RQuot0(RMul(Q(cost_func.a), PowValue(flow, cost_func.k + 1)),
                          Q(cost_func.k + 1)),
                   RMul(Q(cost_func.b), flow))]

\* ------------------------------------------------------------ path finding
\* Program constants of find_all_simple_paths.
Cutoff == 10
MaxPaths == 50

\* nx.DiGraph after _build_graph: the successors of each node, in the order in
\* which add_edge first named them (a second edge between the same ordered
\* node pair adds no successor: a DiGraph keeps one edge per pair).
RECURSIVE Successors(_, _)
Successors(edges, u) ==
  IF edges = <<>> THEN <<>>
  ELSE LET n == Len(edges)
           before == Successors(SubSeq(edges, 1, n - 1), u)
           e == edges[n]
       IN  IF e.source = u /\ e.target \notin SeqToSet(before)
           THEN Append(before, e.target) ELSE before

\* self.edge_map after _build_graph: (source, target) -> edge id; a later
\* edge of the same pair overwrites the earlier one.
edge_map_of(edges) ==
  [p \in {<<edges[i].source, edges[i].target>> : i \in 1..Len(edges)} |->
     LET last == CHOOSE i \in 1..Len(edges) :
                   /\ <<edges[i].source, edges[i].target>> = p
                   /\ \A j \in (i + 1)..Len(edges) :
                        <<edges[j].source, edges[j].target>> # p
     IN  edges[last].id]

\* self.edge_data after _build_graph: edge id -> Edge (a later edge with the
\* same id overwrites).
edge_data_of(edges) ==
  [id \in {edges[i].id : i \in 1..Len(edges)} |->
     LET last == CHOOSE i \in 1..Len(edges) :
                   /\ edges[i].id = id
                   /\ \A j \in (i + 1)..Len(edges) : edges[j].id # id
     IN  edges[last]]

\* nx.all_simple_paths(graph, source, target, cutoff): depth-first over the
\* successors in their order; visited is the path so far, i the position in
\* the successors of its last node.
RECURSIVE all_simple_paths(_, _, _, _, _)
all_simple_paths(edges, visited, target, cutoff, i) ==
  LET children == Successors(edges, visited[Len(visited)])
  IN  IF i > Len(children) THEN <<>>
      ELSE IF Len(visited) < cutoff
      THEN LET child == children[i]
               here == IF child \in SeqToSet(visited) THEN <<>>
                       ELSE IF child = target THEN <<Append(visited, child)>>
                       ELSE all_simple_paths(edges, Append(visited, child),
                                             target, cutoff, 1)
           IN  here \o all_simple_paths(edges, visited, target, cutoff, i + 1)
      ELSE IF target \in {children[j] : j \in i..Len(children)} \ SeqToSet(visited)
      THEN <<Append(visited, target)>>
      ELSE <<>>

find_all_simple_paths(edges, source, target, max_paths) ==
  LET paths == all_simple_paths(edges, <<source>>, target, Cutoff, 1)
  IN  SubSeq(paths, 1, IF Len(paths) < max_paths THEN Len(paths) ELSE max_paths)

RECURSIVE path_to_edges(_, _)
path_to_edges(path, edge_map) ==
  IF Len(path) < 2 THEN <<>>
  ELSE LET n == Len(path)
           before == path_to_edges(SubSeq(path, 1, n - 1), edge_map)
           edge_key == <<path[n - 1], path[n]>>
       IN  IF edge_key \in DOMAIN edge_map
           THEN Append(before, edge_map[edge_key]) ELSE before

od_key_of(od) == <<od.origin, od.destination>>

\* _find_paths: (od, path, edges) for every path of every OD pair, in order.
RECURSIVE find_paths(_, _)
find_paths(net, n) ==
  IF n = 0 THEN <<>>
  ELSE LET od == net.od_pairs[n]
           paths == find_all_simple_paths(net.edges, od.origin, od.destination,
                                          MaxPaths)
       IN  find_paths(net, n - 1) \o
           [i \in 1..Len(paths) |->
              [od |-> od_key_of(od), path |-> paths[i],
               edges |-> path_to_edges(paths[i], edge_map_of(net.edges))]]

\* The keys of self.paths_by_od after _find_paths.
paths_by_od_keys(net) ==
  {od_key_of(net.od_pairs[n]) : n \in
     {m \in 1..Len(net.od_pairs) :
        find_all_simple_paths(net.edges, net.od_pairs[m].origin,
                              net.od_pairs[m].destination, MaxPaths) # <<>>}}

\* ------------------------------------------------- Frank-Wolfe: the helpers
\* net is the NetworkData, paths is self.all_paths, keys the keys of
\* self.paths_by_od; a path-flow vector is a sequence indexed like paths.

EdgeIds(net) == {net.edges[i].id : i \in 1..Len(net.edges)}

Occurrences(s, x) == Cardinality({j \in 1..Len(s) : s[j] = x})

RECURSIVE EdgeFlowSum(_, _, _, _)
EdgeFlowSum(paths, path_flows, id, n) ==
  IF n = 0 THEN Zero
  ELSE RAdd(EdgeFlowSum(paths, path_flows, id, n - 1),
            RMul(Q(Occurrences(paths[n].edges, id)), path_flows[n]))

\* Edge flows that count each path on its first edge only.
FirstEdgeFlows(net, paths, path_flows) ==
  [id \in EdgeIds(net) |->
     RSumSeq([i \in 1..Len(paths) |->
                IF paths[i].edges # <<>> /\ Head(paths[i].edges) = id
                THEN path_flows[i] ELSE Zero])]

\* _compute_edge_flows: a dict with a key for every edge of the network.
compute_edge_flows(net, paths, path_flows) ==
  [id \in EdgeIds(net) |-> EdgeFlowSum(paths, path_flows, id, Len(paths))]

\* self.edge_data[edge_id].cost_function
CostFunctionOf(net, edge_id) == edge_data_of(net.edges)[edge_id].cost_function

\* The cost of one edge in _compute_path_costs.
EdgeCost(net, edge_id, flow, use_marginal) ==
  IF use_marginal THEN evaluate_marginal_cost(CostFunctionOf(net, edge_id), flow)
  ELSE evaluate_cost(CostFunctionOf(net, edge_id), flow)

RECURSIVE PathCostValue(_, _, _, _)
PathCostValue(net, edges, edge_flows, use_marginal) ==
  IF edges = <<>> THEN Zero
  ELSE RAdd(PathCostValue(net, Tail(edges), edge_flows, use_marginal),
            EdgeCost(net, Head(edges), edge_flows[Head(edges)], use_marginal).v)

\* The cost of one path in _compute_path_costs.
PathCost(net, edges, edge_flows, use_marginal) ==
  [ok |-> \A j \in 1..Len(edges) :
            EdgeCost(net, edges[j], edge_flows[edges[j]], use_marginal).ok,
   v |-> PathCostValue(net, edges, edge_flows, use_marginal)]

\* _compute_path_costs: the cost of every path; not ok where a cost
\* evaluation raises.
compute_path_costs(net, paths, edge_flows, use_marginal) ==
  [ok |-> \A i \in 1..Len(paths) :
            PathCost(net, paths[i].edges, edge_flows, use_marginal).ok,
   v |-> [i \in 1..Len(paths) |->
            PathCost(net, paths[i].edges, edge_flows, use_marginal).v]]

ZeroFlows(paths) == [i \in 1..Len(paths) |-> Zero]

OdPathIndices(paths, od_key) == {i \in 1..Len(paths) : paths[i].od = od_key}

SetMin(S) == CHOOSE i \in S : \A j \in S : i <= j

\* np.argmin over the OD pair's paths: the first index of minimum cost.
ArgMinIndex(path_costs, od_path_indices) ==
  SetMin({i \in od_path_indices :
            \A j \in od_path_indices : RLeq(path_costs[i], path_costs[j])})

\* An assignment that does not skip an OD pair without paths: its demand goes
\* to the first path.
AssignOdUnchecked(path_flows, od, od_path_indices, keys, path_costs) ==
  IF od_path_indices = {}
  THEN [path_flows EXCEPT ![1] = RAdd(path_flows[1], Q(od.demand))]
  ELSE [path_flows EXCEPT
          ![ArgMinIndex(path_costs, od_path_indices)] = Q(od.demand)]

\* One OD pair of _all_or_nothing.
AssignOd(path_flows, od, od_path_indices, keys, path_costs) ==
  IF od_key_of(od) \notin keys \/ od_path_indices = {} THEN path_flows
  ELSE [path_flows EXCEPT
          ![ArgMinIndex(path_costs, od_path_indices)] = Q(od.demand)]

\* _all_or_nothing, the OD pairs 1..n handled in order.
RECURSIVE all_or_nothing_upto(_, _, _, _, _)
all_or_nothing_upto(net, paths, keys, path_costs, n) ==
  IF n = 0 THEN ZeroFlows(paths)
  ELSE AssignOd(all_or_nothing_upto(net, paths, keys, path_costs, n - 1),
                net.od_pairs[n],
                OdPathIndices(paths, od_key_of(net.od_pairs[n])),
                keys, path_costs)

all_or_nothing(net, paths, keys, path_costs) ==
  all_or_nothing_upto(net, paths, keys, path_costs, Len(net.od_pairs))

\* One term of _beckmann_objective ("beckmann") or _system_cost_objective.
ObjectiveTerm(cost_func, flow, objective_type) ==
  IF objective_type = "beckmann" THEN evaluate_integral(cost_func, flow)
  ELSE [ok |-> evaluate_cost(cost_func, flow).ok,
        v |-> RMul(flow, evaluate_cost(cost_func, flow).v)]

RECURSIVE ObjectiveSum(_, _, _, _)
ObjectiveSum(net, edge_flows, objective_type, n) ==
  IF n = 0 THEN Zero
  ELSE RAdd(ObjectiveSum(net, edge_flows, objective_type, n - 1),
            ObjectiveTerm(net.edges[n].cost_function, edge_flows[net.edges[n].id],
                          objective_type).v)

\* _beckmann_objective ("beckmann") and _system_cost_objective ("system").
objective_of(net, edge_flows, objective_type) ==
  [ok |-> \A n \in 1..Len(net.edges) :
            ObjectiveTerm(net.edges[n].cost_function, edge_flows[net.edges[n].id],
                          objective_type).ok,
   v |-> ObjectiveSum(net, edge_flows, objective_type, Len(net.edges))]

\* current + alpha * (direction - current)
Blend(current_flows, direction_flows, alpha) ==
  [i \in 1..Len(current_flows) |->
     RAdd(current_flows[i], RMul(alpha, RSub(direction_flows[i], current_flows[i])))]

\* The objective of _line_search at alpha.
line_objective(net, paths, current_flows, direction_flows, objective_type, alpha) ==
  objective_of(net,
               compute_edge_flows(net, paths,
                                  Blend(current_flows, direction_flows, alpha)),
               objective_type)

\* A step size not kept within the bounds of the search.
Unclamped(x) == x

Clamp01(x) == RMax(Zero, RMin(One, x))

\* A search that always returns the full step.
FullStep(A, B, g0, g1) == {One}

\* The minimisers over [0, 1] of g(alpha) = A*alpha^2 + B*alpha + g(0).
MinimisersOf(A, B, g0, g1) ==
  IF RLess(Zero, A) THEN {Clamp01(RQuot(RNeg(B), RMul(Q(2), A)))}
  ELSE IF A = Zero /\ B = Zero THEN {Zero, Half, One}
  ELSE IF RLess(g1, g0) THEN {One}
  ELSE IF RLess(g0, g1) THEN {Zero}
  ELSE {Zero, One}

\* minimize_scalar(objective, bounds=(0, 1), method='bounded'), idealised: the
\* exact minimisers of the objective over [0, 1].  The cost functions of the
\* model make both objectives polynomials of degree <= 2 in alpha,
\* g(alpha) = A*alpha^2 + B*alpha + g(0), determined by g(0), g(1/2), g(1).
\* Where the objective is constant in alpha every point of [0, 1] minimises
\* it; 0, 1/2 and 1 stand for them.
Minimisers(g0, gh, g1) ==
  MinimisersOf(RSub(RAdd(RMul(Q(2), g1), RMul(Q(2), g0)), RMul(Q(4), gh)),
               RSub(RSub(RMul(Q(4), gh), RMul(Q(3), g0)), g1),
               g0, g1)

LineSearchOf(g0, gh, g1) ==
  IF g0.ok /\ gh.ok /\ g1.ok
  THEN [ok |-> TRUE, alphas |-> Minimisers(g0.v, gh.v, g1.v)]
  ELSE [ok |-> FALSE, alphas |-> {}]

\* _line_search: the step sizes it may return; not ok where an evaluation of
\* the objective raises.
line_search(net, paths, current_flows, direction_flows, objective_type) ==
  LineSearchOf(
    line_objective(net, paths, current_flows, direction_flows, objective_type, Zero),
    line_objective(net, paths, current_flows, direction_flows, objective_type, Half),
    line_objective(net, paths, current_flows, direction_flows, objective_type, One))

\* np.max(np.abs(new_path_flows - path_flows))
MaxAbsChange(new_path_flows, path_flows) ==
  RMaxSeq([i \in 1..Len(path_flows) |-> RAbs(RSub(new_path_flows[i], path_flows[i]))])

\* ------------------------------------------------- results and tolls

\* The first k decimal digits of r/d (0 <= r < d) and the remainder left.
DecimalsStep(q, rest, k) == <<q * 10^(k - 1) + rest[1], rest[2]>>

RECURSIVE Decimals(_, _, _)
Decimals(r, d, k) ==
  IF k = 0 THEN <<0, r>>
  ELSE DecimalsStep((r * 10) \div d, Decimals((r * 10) % d, d, k - 1), k)

\* fl/10000 rounded by the remainder rem/d: up, down, or to the even one on a tie.
RoundEven(fl, rem, d) ==
  Norm(IF 2 * rem < d THEN fl
       ELSE IF 2 * rem > d THEN fl + 1
       ELSE IF fl % 2 = 0 THEN fl ELSE fl + 1,
       10000)

RoundOf(whole, decimals, d) == RoundEven(whole * 10000 + decimals[1], decimals[2], d)

\* round(x, 4): the nearest multiple of 1/10000, a tie going to the even one.
Round4(x) == RoundOf(x[1] \div x[2], Decimals(x[1] % x[2], x[2], 4), x[2])

\* The keys of an edge-flow dict, in insertion order.
DictOrder(net, edge_flows) ==
  LET kept(edge) == edge.id \in DOMAIN edge_flows
  IN  [i \in 1..Len(SelectSeq(net.edges, kept)) |-> SelectSeq(net.edges, kept)[i].id]

\* compute_optimal_tolls: flow * t'(flow) for every key of so_edge_flows.
compute_optimal_tolls(net, so_edge_flows) ==
  [ok |-> \A id \in DOMAIN so_edge_flows :
            evaluate_cost_derivative(CostFunctionOf(net, id), so_edge_flows[id]).ok,
   v |-> [id \in DOMAIN so_edge_flows |->
            RMul(so_edge_flows[id],
                 evaluate_cost_derivative(CostFunctionOf(net, id),
                                          so_edge_flows[id]).v)]]

MaxFlowOf(values) ==
  IF values # <<>> /\ RLess(Zero, RMaxSeq(values)) THEN RMaxSeq(values) ELSE One

ValuesIn(order, edge_flows) == [i \in 1..Len(order) |-> edge_flows[order[i]]]

\* max_flow of format_results.
max_flow_of(net, edge_flows) ==
  MaxFlowOf(ValuesIn(DictOrder(net, edge_flows), edge_flows))

\* A congestion level that is the flow itself, cut at 1.
CongestionUnnormalised(flow, max_flow) == RMin(flow, One)

congestion_of(flow, max_flow) ==
  IF RLess(Zero, max_flow) THEN RMin(RQuot(flow, max_flow), One) ELSE Zero

FlowThreshold == <<1, 1000000>>

\* The PathFlow entries of format_results: the paths with flow > 1e-6.
RECURSIVE PositivePathFlows(_, _, _)
PositivePathFlows(paths, path_flows, n) ==
  IF n = 0 THEN <<>>
  ELSE PositivePathFlows(paths, path_flows, n - 1) \o
       (IF RLess(FlowThreshold, path_flows[n])
        THEN <<[path |-> paths[n].path, edges |-> paths[n].edges,
                flow |-> Round4(path_flows[n])]>>
        ELSE <<>>)

RECURSIVE WeightedSum(_, _, _, _)
WeightedSum(weights, values, indices, n) ==
  IF n = 0 THEN Zero
  ELSE RAdd(WeightedSum(weights, values, indices, n - 1),
            IF n \in indices THEN RMul(weights[n], values[n]) ELSE Zero)

OdCostKey(od) == od.origin \o "->" \o od.destination

SetMinCost(costs) == CHOOSE c \in costs : \A c2 \in costs : RLeq(c, c2)

OdCostWith(total_flow, weighted, costs) ==
  IF RLess(Zero, total_flow) THEN RQuot(weighted, total_flow) ELSE SetMinCost(costs)

\* avg_cost of one OD pair that has paths.
od_cost_of(paths, path_flows, path_costs, od_path_indices) ==
  OdCostWith(WeightedSum(path_flows, [i \in 1..Len(paths) |-> One],
                         od_path_indices, Len(paths)),
             WeightedSum(path_flows, path_costs, od_path_indices, Len(paths)),
             {path_costs[i] : i \in od_path_indices})

\* The OD pairs (by position) for which format_results finds paths.
OdsWithPaths(net, paths) ==
  {n \in 1..Len(net.od_pairs) :
     OdPathIndices(paths, od_key_of(net.od_pairs[n])) # {}}

LastWithKey(net, with_paths, key) ==
  CHOOSE n \in with_paths :
    /\ OdCostKey(net.od_pairs[n]) = key
    /\ \A m \in with_paths : OdCostKey(net.od_pairs[m]) = key => m <= n

\* The od_costs dict of format_results: an entry per OD pair that has paths,
\* a later OD pair of the same key overwriting an earlier one.
od_costs_of(net, paths, path_flows, path_costs) ==
  [key \in {OdCostKey(net.od_pairs[n]) : n \in OdsWithPaths(net, paths)} |->
     Round4(od_cost_of(paths, path_flows, path_costs,
                       OdPathIndices(paths,
                         od_key_of(net.od_pairs[
                           LastWithKey(net, OdsWithPaths(net, paths), key)]))))]

\* One EdgeResult of format_results.
EdgeResultOf(net, id, flow, tolls, max_flow) ==
  [id |-> id,
   flow |-> Round4(flow),
   cost |-> Round4(evaluate_cost(CostFunctionOf(net, id), flow).v),
   toll |-> IF id \in DOMAIN tolls THEN Round4(tolls[id]) ELSE Zero,
   congestion_level |-> Round4(congestion_of(flow, max_flow))]

\* total_cost of format_results.
TotalCost(net, edge_flows, order) ==
  RSumSeq([i \in 1..Len(order) |->
             RMul(edge_flows[order[i]],
                  evaluate_cost(CostFunctionOf(net, order[i]),
                                edge_flows[order[i]]).v)])

FormatWith(net, paths, path_flows, edge_flows, tolls, order, max_flow, path_costs) ==
  [ok |-> /\ path_costs.ok
          /\ \A i \in 1..Len(order) :
               evaluate_cost(CostFunctionOf(net, order[i]), edge_flows[order[i]]).ok,
   v |-> [edge_results |->
            [i \in 1..Len(order) |->
               EdgeResultOf(net, order[i], edge_flows[order[i]], tolls, max_flow)],
          path_flows |-> PositivePathFlows(paths, path_flows, Len(paths)),
          total_system_cost |-> Round4(TotalCost(net, edge_flows, order)),
          od_costs |-> od_costs_of(net, paths, path_flows, path_costs.v)]]

\* format_results; tolls is the toll dict, empty where none is passed.
format_results(net, paths, path_flows, edge_flows, tolls) ==
  FormatWith(net, paths, path_flows, edge_flows, tolls,
             DictOrder(net, edge_flows), max_flow_of(net, edge_flows),
             compute_path_costs(net, paths, edge_flows, FALSE))

\* poa of compute_equilibrium, rounded.
price_of_anarchy_of(we_total, so_total) ==
  Round4(IF RLess(Zero, so_total) THEN RQuot(we_total, so_total) ELSE One)

\* ------------------------------------------------------------ the networks

\* The iteration budget max_iter of both solves (1000 in the program).
MaxIter == 3

\* tolerance of both solves.
Tolerance == <<1, 1000000>>

Edge(id, source, target, cost_function) ==
  [id |-> id, source |-> source, target |-> target, cost_function |-> cost_function]

ODPair(origin, destination, demand) ==
  [origin |-> origin, destination |-> destination, demand |-> demand]

\* t = f, t = 2f, t = 1 (k = 0); bpr with capacity 0 (t = 1), with
\* beta = 0 (t = 2) and with beta = 1 (t = 1 + f/2).
CostFunctions ==
  {Polynomial(1, 1, 0), Polynomial(2, 1, 0), Polynomial(1, 0, 0),
   Bpr(1, 0, 1, 4), Bpr(1, 1, 1, 0), Bpr(1, 2, 1, 1)}

\* Two edges A -> B side by side, one OD pair A -> B of demand 10.
ParallelNetworks ==
  {[nodes |-> <<"A", "B">>,
    edges |-> <<Edge("e1", "A", "B", c1), Edge("e2", "A", "B", c2)>>,
    od_pairs |-> <<ODPair("A", "B", 10)>>] : c1 \in CostFunctions, c2 \in CostFunctions}

TriangleODs ==
  {<<ODPair("A", "C", 10)>>,
   <<ODPair("A", "C", 0)>>,
   <<ODPair("C", "A", 10)>>,
   <<ODPair("C", "A", 4), ODPair("A", "C", 6)>>,
   <<ODPair("A", "C", 6), ODPair("B", "C", 3)>>,
   <<ODPair("A", "C", 5), ODPair("A", "C", 3)>>}

\* A -> B -> C beside A -> C.
TriangleNetworks ==
  {[nodes |-> <<"A", "B", "C">>,
    edges |-> <<Edge("e1", "A", "B", c1), Edge("e2", "B", "C", c2),
                Edge("e3", "A", "C", c3)>>,
    od_pairs |-> ods] :
     c1 \in {Polynomial(1, 1, 0), Polynomial(1, 0, 0), Bpr(1, 2, 1, 1)},
     c2 \in {Polynomial(1, 1, 0), Polynomial(2, 1, 0), Bpr(1, 0, 1, 4)},
     c3 \in CostFunctions,
     ods \in TriangleODs}

\* The Braess network: A -> B -> D, A -> C -> D and the link B -> C.
Braess(c1, c2, c3, c4, c5, ods) ==
  [nodes |-> <<"A", "B", "C", "D">>,
   edges |-> <<Edge("e1", "A", "B", c1), Edge("e2", "A", "C", c2),
               Edge("e3", "B", "C", c3), Edge("e4", "B", "D", c4),
               Edge("e5", "C", "D", c5)>>,
   od_pairs |-> ods]

BraessNetworks ==
  {Braess(Polynomial(2, 1, 0), Polynomial(1, 1, 2), Polynomial(0, 0, 0),
          Polynomial(0, 0, 0), Polynomial(1, 1, 0), <<ODPair("A", "D", 2)>>),
   Braess(Polynomial(2, 1, 0), Polynomial(0, 0, 0), Polynomial(0, 0, 0),
          Polynomial(2, 1, 0), Polynomial(2, 1, 0), <<ODPair("A", "D", 2)>>),
   Braess(Polynomial(1, 1, 0), Polynomial(0, 0, 0), Polynomial(0, 0, 0),
          Polynomial(2, 1, 0), Polynomial(2, 1, 0), <<ODPair("A", "D", 2)>>),
   Braess(Polynomial(1, 1, 0), Polynomial(1, 1, 2), Polynomial(0, 0, 0),
          Polynomial(2, 1, 0), Polynomial(2, 1, 0), <<ODPair("A", "D", 2)>>),
   Braess(Polynomial(2, 1, 0), Polynomial(1, 1, 2), Polynomial(1, 0, 0),
          Polynomial(2, 1, 0), Polynomial(1, 1, 0), <<ODPair("A", "D", 2)>>),
   Braess(Polynomial(1, 1, 0), Polynomial(1, 0, 0), Polynomial(0, 0, 0),
          Polynomial(1, 0, 0), Polynomial(1, 1, 0), <<ODPair("A", "D", 1)>>),
   Braess(Polynomial(1, 1, 0), Polynomial(0, 0, 0), Polynomial(0, 0, 0),
          Polynomial(2, 1, 0), Polynomial(1, 1, 0),
          <<ODPair("A", "D", 2), ODPair("B", "D", 1)>>),
   Braess(Polynomial(2, 1, 0), Polynomial(0, 0, 0), Polynomial(0, 0, 0),
          Polynomial(0, 0, 0), Polynomial(1, 1, 0),
          <<ODPair("A", "D", 2), ODPair("B", "D", 1)>>)}

Networks == ParallelNetworks \cup TriangleNetworks \cup BraessNetworks

\* ------------------------------------------------------------ the state

VARIABLES
  network,          \* the NetworkData of the request
  all_paths,        \* self.all_paths
  paths_by_od,      \* the keys of self.paths_by_od
  pc,               \* the position in compute_equilibrium
  iteration,        \* loop bodies of the running solve completed so far
  path_flows,       \* path_flows of the running solve
  path_costs,       \* path_costs of the running solve
  direction_flows,  \* direction_flows of the last iteration
  alpha,            \* alpha of the last iteration
  change,           \* np.max(np.abs(new_path_flows - path_flows)) of the last iteration
  stop,             \* how each solve left its loop, by mode
  we,               \* (we_path_flows, we_edge_flows)
  so,               \* (so_path_flows, so_edge_flows)
  we_result,        \* format_results of the equilibrium
  so_result,        \* format_results of the optimum
  optimal_tolls,    \* compute_optimal_tolls(so_edge_flows)
  price_of_anarchy  \* poa, rounded

vars == <<network, all_paths, paths_by_od, pc, iteration, path_flows, path_costs,
          direction_flows, alpha, change, stop, we, so, we_result, so_result,
          optimal_tolls, price_of_anarchy>>

NoSolve == [path_flows |-> <<>>, edge_flows |-> <<>>]

NoResult ==
  [edge_results |-> <<>>, path_flows |-> <<>>, total_system_cost |-> Zero,
   od_costs |-> <<>>]

\* TrafficAssignment(network) has run _build_graph and _find_paths.
Init ==
  /\ network \in Networks
  /\ all_paths = find_paths(network, Len(network.od_pairs))
  /\ paths_by_od = paths_by_od_keys(network)
  /\ pc = "we_init"
  /\ iteration = 0
  /\ path_flows = <<>>
  /\ path_costs = <<>>
  /\ direction_flows = <<>>
  /\ alpha = Zero
  /\ change = Zero
  /\ stop = [we |-> "none", so |-> "none"]
  /\ we = NoSolve
  /\ so = NoSolve
  /\ we_result = NoResult
  /\ so_result = NoResult
  /\ optimal_tolls = <<>>
  /\ price_of_anarchy = Zero

UseMarginal == pc \in {"so_init", "so_loop"}
Mode == IF UseMarginal THEN "so" ELSE "we"
ObjectiveType == IF UseMarginal THEN "system" ELSE "beckmann"
LoopOf(p) == IF p = "we_init" THEN "we_loop" ELSE "so_loop"
DoneOf(p) == IF p \in {"we_init", "we_loop"} THEN "we_done" ELSE "so_done"

\* return path_flows, self._compute_edge_flows(path_flows)
Returned(net, paths, flows) ==
  [path_flows |-> flows, edge_flows |-> compute_edge_flows(net, paths, flows)]

\* A convergence check with its comparison turned round.
ConvergedWhenLarge(max_change, tolerance) == RLess(tolerance, max_change)

\* The if-branch of the convergence check.
Converged(max_change, tolerance) == RLess(max_change, tolerance)

SolveInitWith(net, paths, keys, costs) ==
  IF costs.ok
  THEN [outcome |-> "loop", path_costs |-> costs.v,
        path_flows |-> all_or_nothing(net, paths, keys, costs.v)]
  ELSE [outcome |-> "raised", path_costs |-> <<>>, path_flows |-> <<>>]

\* solve_wardrop_equilibrium / solve_system_optimum up to the loop: the early
\* return for a network without paths, else the all-or-nothing assignment at
\* zero edge flows (raised: a cost evaluation raised).
solve_init(net, paths, keys, use_marginal) ==
  IF paths = <<>>
  THEN [outcome |-> "empty", path_costs |-> <<>>, path_flows |-> <<>>]
  ELSE SolveInitWith(net, paths, keys,
                     compute_path_costs(net, paths, [id \in EdgeIds(net) |-> Zero],
                                        use_marginal))

StepRaised ==
  [raised |-> TRUE, path_costs |-> <<>>, direction_flows |-> <<>>,
   alpha |-> Zero, new_path_flows |-> <<>>, change |-> Zero]

\* The update and the change of one loop body, for the step size alpha.
StepOutcome(current_flows, path_costs_v, direction, step, new_path_flows) ==
  [raised |-> FALSE, path_costs |-> path_costs_v, direction_flows |-> direction,
   alpha |-> step, new_path_flows |-> new_path_flows,
   change |-> MaxAbsChange(new_path_flows, current_flows)]

StepWithSearch(current_flows, path_costs_v, direction, search) ==
  IF ~search.ok THEN {StepRaised}
  ELSE {StepOutcome(current_flows, path_costs_v, direction, step,
                    Blend(current_flows, direction, step)) : step \in search.alphas}

StepWithDirection(net, paths, current_flows, objective_type, path_costs_v, direction) ==
  StepWithSearch(current_flows, path_costs_v, direction,
                 line_search(net, paths, current_flows, direction, objective_type))

StepWithCosts(net, paths, keys, current_flows, objective_type, costs) ==
  IF ~costs.ok THEN {StepRaised}
  ELSE StepWithDirection(net, paths, current_flows, objective_type, costs.v,
                         all_or_nothing(net, paths, keys, costs.v))

\* One body of the for loop: the outcomes, one per step size the line search
\* may return.
solve_step(net, paths, keys, current_flows, use_marginal, objective_type) ==
  StepWithCosts(net, paths, keys, current_flows, objective_type,
                compute_path_costs(net, paths,
                                   compute_edge_flows(net, paths, current_flows),
                                   use_marginal))

SetSolve(value) ==
  IF UseMarginal THEN so' = value /\ we' = we ELSE we' = value /\ so' = so

SolveInit ==
  /\ pc \in {"we_init", "so_init"}
  /\ UNCHANGED <<network, all_paths, paths_by_od, we_result, so_result,
                 optimal_tolls, price_of_anarchy>>
  /\ iteration' = 0
  /\ direction_flows' = <<>>
  /\ alpha' = Zero
  /\ change' = Zero
  /\ \E r \in {solve_init(network, all_paths, paths_by_od, UseMarginal)} :
       /\ path_costs' = r.path_costs
       /\ path_flows' = r.path_flows
       /\ stop' = [stop EXCEPT ![Mode] = IF r.outcome = "empty" THEN "empty" ELSE "none"]
       /\ pc' = IF r.outcome = "empty" THEN DoneOf(pc)
                ELSE IF r.outcome = "loop" THEN LoopOf(pc) ELSE "raised"
       /\ IF r.outcome = "empty" THEN SetSolve(NoSolve) ELSE UNCHANGED <<we, so>>

\* One body of the for loop, with the return that follows the loop when this
\* body is the last.
Iterate ==
  /\ pc \in {"we_loop", "so_loop"}
  /\ iteration < MaxIter
  /\ UNCHANGED <<network, all_paths, paths_by_od, we_result, so_result,
                 optimal_tolls, price_of_anarchy>>
  /\ \E r \in solve_step(network, all_paths, paths_by_od, path_flows, UseMarginal,
                         ObjectiveType) :
       IF r.raised
       THEN /\ pc' = "raised"
            /\ UNCHANGED <<iteration, path_flows, path_costs, direction_flows,
                           alpha, change, stop, we, so>>
       ELSE /\ path_costs' = r.path_costs
            /\ direction_flows' = r.direction_flows
            /\ alpha' = r.alpha
            /\ change' = r.change
            /\ path_flows' = r.new_path_flows
            /\ iteration' = iteration + 1
            /\ \E converged \in {Converged(r.change, Tolerance)} :
                 /\ stop' = [stop EXCEPT ![Mode] =
                               IF converged THEN "converged"
                               ELSE IF iteration + 1 = MaxIter THEN "exhausted"
                               ELSE "none"]
                 /\ IF converged \/ iteration + 1 = MaxIter
                    THEN /\ pc' = DoneOf(pc)
                         /\ \E ret \in {Returned(network, all_paths, r.new_path_flows)} :
                              SetSolve(ret)
                    ELSE /\ pc' = pc
                         /\ UNCHANGED <<we, so>>

\* we_result = solver.format_results(we_path_flows, we_edge_flows)
FormatEquilibrium ==
  /\ pc = "we_done"
  /\ UNCHANGED <<network, all_paths, paths_by_od, iteration, path_flows, path_costs,
                 direction_flows, alpha, change, stop, we, so, so_result,
                 optimal_tolls, price_of_anarchy>>
  /\ \E r \in {format_results(network, all_paths, we.path_flows, we.edge_flows, <<>>)} :
       /\ we_result' = IF r.ok THEN r.v ELSE we_result
       /\ pc' = IF r.ok THEN "so_init" ELSE "raised"

\* The rest of compute_equilibrium after solve_system_optimum: the tolls, the
\* optimum's result and the price of anarchy.
FinishCompute ==
  /\ pc = "so_done"
  /\ UNCHANGED <<network, all_paths, paths_by_od, iteration, path_flows, path_costs,
                 direction_flows, alpha, change, stop, we, so, we_result>>
  /\ \E tolls \in {compute_optimal_tolls(network, so.edge_flows)} :
       IF ~tolls.ok
       THEN /\ pc' = "raised"
            /\ UNCHANGED <<optimal_tolls, so_result, price_of_anarchy>>
       ELSE \E r \in {format_results(network, all_paths, so.path_flows,
                                     so.edge_flows, tolls.v)} :
              IF ~r.ok
              THEN /\ pc' = "raised"
                   /\ UNCHANGED <<optimal_tolls, so_result, price_of_anarchy>>
              ELSE /\ optimal_tolls' = [id \in DOMAIN tolls.v |-> Round4(tolls.v[id])]
                   /\ so_result' = r.v
                   /\ price_of_anarchy' =
                        price_of_anarchy_of(we_result.total_system_cost,
                                            r.v.total_system_cost)
                   /\ pc' = "done"

Next == SolveInit \/ Iterate \/ FormatEquilibrium \/ FinishCompute

Spec == Init /\ [][Next]_vars

\* ------------------------------------------------------------ properties

InLoop == pc \in {"we_loop", "so_loop"}

NonNeg(flows) == \A i \in DOMAIN flows : RLeq(Zero, flows[i])

\* The OD pairs (by position) that have a path in self.all_paths.
HasPaths(n) == \E i \in 1..Len(all_paths) : all_paths[i].od = od_key_of(network.od_pairs[n])

\* The sum of a path-flow vector over the paths of the n-th OD pair.
OdFlow(flows, n) ==
  RSumSeq([i \in 1..Len(all_paths) |->
             IF all_paths[i].od = od_key_of(network.od_pairs[n])
             THEN flows[i] ELSE Zero])

MassConserved(flows) ==
  \A n \in 1..Len(network.od_pairs) :
    HasPaths(n) => OdFlow(flows, n) = Q(network.od_pairs[n].demand)

\* C1: after the initial all-or-nothing assignment and after every update, for
\* every OD pair with a candidate path the path flows over that OD pair's
\* paths sum to its demand, in both solves and in what they return.
C1_MassConservation ==
  /\ InLoop => MassConserved(path_flows)
  /\ we.path_flows # <<>> => MassConserved(we.path_flows)
  /\ so.path_flows # <<>> => MassConserved(so.path_flows)

Scenario1 ==
  [nodes |-> <<"A", "B">>,
   edges |-> <<Edge("e1", "A", "B", Polynomial(1, 1, 0)),
               Edge("e2", "A", "B", Polynomial(2, 1, 0))>>,
   od_pairs |-> <<ODPair("A", "B", 10)>>]

Near(x, y) == RLess(RAbs(RSub(x, y)), <<1, 100>>)

\* C2: in Scenario 1 (two edges A -> B with costs f and 2f, demand 10) the
\* equilibrium solve returns positive flow on both edges, about 6.67 on edge 1
\* and 3.33 on edge 2, and the two edges cost the same.
C2_Scenario1Split ==
  (network = Scenario1 /\ stop.we # "none") =>
    /\ DOMAIN we.edge_flows = {"e1", "e2"}
    /\ RLess(Zero, we.edge_flows["e1"])
    /\ RLess(Zero, we.edge_flows["e2"])
    /\ Near(we.edge_flows["e1"], <<20, 3>>)
    /\ Near(we.edge_flows["e2"], <<10, 3>>)
    /\ evaluate_cost(Polynomial(1, 1, 0), we.edge_flows["e1"]).v
         = evaluate_cost(Polynomial(2, 1, 0), we.edge_flows["e2"]).v

\* The sum of a path-flow vector over the paths that traverse edge id.
PathSum(flows, id) ==
  RSumSeq([i \in 1..Len(all_paths) |->
             IF id \in SeqToSet(all_paths[i].edges) THEN flows[i] ELSE Zero])

Reconstructed(r) ==
  \A id \in EdgeIds(network) :
    /\ id \in DOMAIN r.edge_flows
    /\ r.edge_flows[id] = PathSum(r.path_flows, id)

SolveOf(mode) == IF mode = "we" THEN we ELSE so

\* C3 as stated: for every edge of the network, the edge-flow mapping a solve
\* returns holds the sum of the returned path flows over the paths that
\* traverse the edge.
C3_EveryEdgeReconstructed ==
  \A mode \in {"we", "so"} : stop[mode] # "none" => Reconstructed(SolveOf(mode))

\* C3, amended: where the network has a candidate path, the returned edge-flow
\* mapping holds, for every edge, the sum of the returned path flows over the
\* paths that traverse it (0 for an edge no path traverses); where it has none,
\* the solve returns an empty vector and an empty mapping.
C3_EdgeFlowReconstruction ==
  \A mode \in {"we", "so"} :
    stop[mode] # "none" =>
      IF all_paths # <<>> THEN Reconstructed(SolveOf(mode))
      ELSE SolveOf(mode).path_flows = <<>> /\ SolveOf(mode).edge_flows = <<>>

\* Some edge is traversed by two paths that both carry returned flow.
C3_Witness ==
  /\ stop.so \in {"converged", "exhausted"}
  /\ \E id \in EdgeIds(network) :
       Cardinality({i \in 1..Len(all_paths) :
                      /\ id \in SeqToSet(all_paths[i].edges)
                      /\ RLess(Zero, so.path_flows[i])}) > 1

\* Every per-path change from old to new is below the tolerance.
SmallChange(new, old) ==
  \A i \in 1..Len(old) : RLess(RAbs(RSub(new[i], old[i])), Tolerance)

C4_Step ==
  InLoop =>
    /\ pc' # "raised"
    /\ iteration' = iteration + 1
    /\ iteration' <= MaxIter
    /\ IF SmallChange(path_flows', path_flows) \/ iteration' = MaxIter
       THEN /\ pc' = DoneOf(pc)
            /\ pc = "we_loop" => we'.path_flows = path_flows' /\ so' = so
            /\ pc = "so_loop" => so'.path_flows = path_flows' /\ we' = we
       ELSE pc' = pc /\ we' = we /\ so' = so

\* C4: a solve loop stops at the first iteration whose largest per-path change
\* is below the tolerance and returns that iteration's new flows; otherwise it
\* runs exactly MaxIter iterations and returns the last flows without raising;
\* it never runs more than MaxIter iterations.
C4_StoppingRule ==
  /\ [](InLoop => iteration < MaxIter)
  /\ [][C4_Step]_vars

C4_Witness ==
  /\ pc = "so_done"
  /\ stop.we = "converged"
  /\ stop.so = "exhausted"
  /\ iteration = MaxIter
  /\ so.path_flows = path_flows

\* C5: with non-negative demands every path flow and every edge flow derived
\* from the path flows is >= 0, after initialization, after every iteration and
\* in what the solves return.
C5_NonNegativity ==
  /\ NonNeg(path_flows)
  /\ NonNeg(direction_flows)
  /\ path_flows # <<>> => NonNeg(compute_edge_flows(network, all_paths, path_flows))
  /\ NonNeg(we.path_flows) /\ NonNeg(we.edge_flows)
  /\ NonNeg(so.path_flows) /\ NonNeg(so.edge_flows)

C5_Witness ==
  /\ InLoop
  /\ iteration >= 2
  /\ RLess(Zero, alpha) /\ RLess(alpha, One)
  /\ \E i \in DOMAIN path_flows : path_flows[i] = Zero
  /\ \E i \in DOMAIN path_flows : RLess(Zero, path_flows[i])

\* C6: at flow 0, with capacity 0 or a zero exponent, the four evaluators
\* return their fallback values and no evaluation ends a solve in an error.
C6_DegenerateNeverRaises ==
  /\ pc # "raised"
  /\ \A n \in 1..Len(network.edges) :
       /\ evaluate_cost(network.edges[n].cost_function, Zero).ok
       /\ evaluate_cost_derivative(network.edges[n].cost_function, Zero).ok
       /\ evaluate_cost_derivative(network.edges[n].cost_function, Zero).v = Zero
       /\ evaluate_marginal_cost(network.edges[n].cost_function, Zero).ok
       /\ evaluate_integral(network.edges[n].cost_function, Zero).ok
       /\ evaluate_integral(network.edges[n].cost_function, Zero).v = Zero

\* sum over the edges of flow * cost, for a returned edge-flow mapping.
SystemCost(edge_flows) ==
  RSumSeq([n \in 1..Len(network.edges) |->
             IF network.edges[n].id \in DOMAIN edge_flows
             THEN RMul(edge_flows[network.edges[n].id],
                       evaluate_cost(network.edges[n].cost_function,
                                     edge_flows[network.edges[n].id]).v)
             ELSE Zero])

OptimumNoWorse ==
  /\ RLeq(SystemCost(so.edge_flows), SystemCost(we.edge_flows))
  /\ RLeq(so_result.total_system_cost, we_result.total_system_cost)
  /\ RLeq(One, price_of_anarchy)

RECURSIVE ReachableFrom(_, _)
ReachableFrom(S, k) ==
  IF k = 0 THEN S
  ELSE ReachableFrom(S \cup {network.edges[j].target :
                               j \in {i \in 1..Len(network.edges) :
                                        network.edges[i].source \in S}},
                     k - 1)

\* The n-th OD pair's destination can be reached from its origin.
Connected(n) ==
  network.od_pairs[n].destination
    \in ReachableFrom({network.od_pairs[n].origin}, Len(network.nodes))

ConnectedOds == {n \in 1..Len(network.od_pairs) : Connected(n)}

ConnectedDemand ==
  RSumSeq([n \in 1..Len(network.od_pairs) |->
             IF Connected(n) THEN Q(network.od_pairs[n].demand) ELSE Zero])

EquilibriumFormatted == pc \in {"so_init", "so_loop", "so_done", "done"}

\* C8: an OD pair without a path gets no candidate path, ends no solve in an
\* error, adds no flow to any path, leaves the total cost 0 where no OD pair
\* has a path, and has no od_costs entry, while every OD pair with a path has
\* an od_costs entry.
C8_TopologicalGap ==
  /\ \A n \in 1..Len(network.od_pairs) : HasPaths(n) <=> Connected(n)
  /\ pc = "raised" =>
       \E n \in 1..Len(network.edges) :
         ~evaluate_cost_derivative(network.edges[n].cost_function, Zero).ok
  /\ path_flows # <<>> => RLeq(RSumSeq(path_flows), ConnectedDemand)
  /\ ConnectedOds = {} =>
       /\ path_flows = <<>> /\ we = NoSolve /\ so = NoSolve
       /\ we_result = NoResult /\ so_result = NoResult
  /\ EquilibriumFormatted =>
       DOMAIN we_result.od_costs = {OdCostKey(network.od_pairs[n]) : n \in ConnectedOds}
  /\ pc = "done" =>
       DOMAIN so_result.od_costs = {OdCostKey(network.od_pairs[n]) : n \in ConnectedOds}

C8_Witness ==
  /\ pc = "done"
  /\ ConnectedOds # {}
  /\ \E n \in 1..Len(network.od_pairs) : ~Connected(n)
  /\ RLess(Zero, so_result.total_system_cost)
  /\ DOMAIN so_result.od_costs = {"A->C"}

FlowValues(edge_flows) == {edge_flows[id] : id \in DOMAIN edge_flows}

LargestFlow(edge_flows) ==
  CHOOSE m \in FlowValues(edge_flows) : \A v \in FlowValues(edge_flows) : RLeq(v, m)

InUnit(x) == RLeq(Zero, x) /\ RLeq(x, One)

\* The flow of each edge result over the largest flow of the result.
RatioOfResult(result, i) ==
  RQuot(result.edge_results[i].flow,
        LargestFlow([j \in DOMAIN result.edge_results |->
                       result.edge_results[j].flow]))

\* Every congestion_level of the result is the edge's flow over the largest
\* edge flow, read on the returned flows or on the result's own flows.
CongestionIsRatio(result, edge_flows) ==
  \A i \in DOMAIN result.edge_results :
    /\ InUnit(result.edge_results[i].congestion_level)
    /\ IF FlowValues(edge_flows) = {Zero}
       THEN result.edge_results[i].congestion_level = Zero
       ELSE \/ result.edge_results[i].congestion_level
                 = RQuot(edge_flows[result.edge_results[i].id], LargestFlow(edge_flows))
            \/ result.edge_results[i].congestion_level = RatioOfResult(result, i)

\* C9 as stated: every congestion_level equals the edge's flow divided by the
\* largest edge flow of the result, lies in [0, 1], and is 0 where all flows are 0.
C9_CongestionIsExactRatio ==
  /\ EquilibriumFormatted => CongestionIsRatio(we_result, we.edge_flows)
  /\ pc = "done" => CongestionIsRatio(so_result, so.edge_flows)

CongestionIsRoundedRatio(result, edge_flows) ==
  \A i \in DOMAIN result.edge_results :
    /\ InUnit(result.edge_results[i].congestion_level)
    /\ IF FlowValues(edge_flows) = {Zero}
       THEN result.edge_results[i].congestion_level = Zero
       ELSE result.edge_results[i].congestion_level
              = Round4(RQuot(edge_flows[result.edge_results[i].id],
                             LargestFlow(edge_flows)))

\* C9, amended: every congestion_level equals the edge's flow divided by the
\* largest edge flow the solve returned, rounded to 4 decimal places; it lies
\* in [0, 1] and is 0 for every edge where all flows are 0.
C9_CongestionLevel ==
  /\ EquilibriumFormatted => CongestionIsRoundedRatio(we_result, we.edge_flows)
  /\ pc = "done" => CongestionIsRoundedRatio(so_result, so.edge_flows)

C9_Witness ==
  /\ pc = "done"
  /\ \E i \in DOMAIN so_result.edge_results :
       /\ RLess(Zero, so_result.edge_results[i].congestion_level)
       /\ RLess(so_result.edge_results[i].congestion_level, One)
       /\ so_result.edge_results[i].congestion_level
            # RQuot(so.edge_flows[so_result.edge_results[i].id],
                    LargestFlow(so.edge_flows))

OdIndices(n) ==
  {i \in 1..Len(all_paths) : all_paths[i].od = od_key_of(network.od_pairs[n])}

\* The lowest index, among indices, of a minimum of costs.
LowestMin(costs, indices) ==
  CHOOSE m \in indices :
    /\ \A j \in indices : RLeq(costs[m], costs[j])
    /\ \A j \in indices : j < m => RLess(costs[m], costs[j])

IsAllOrNothing(flows, costs) ==
  \A n \in 1..Len(network.od_pairs) :
    HasPaths(n) =>
      \A i \in OdIndices(n) :
        flows[i] = IF i = LowestMin(costs, OdIndices(n))
                   THEN Q(network.od_pairs[n].demand) ELSE Zero

\* C10: the vector _all_or_nothing returns gives, for every OD pair with
\* candidate paths, the OD pair's whole demand to the lowest-indexed of its
\* paths of minimum cost and 0 to its other paths.
C10_AllOrNothing ==
  /\ (InLoop /\ iteration = 0) => IsAllOrNothing(path_flows, path_costs)
  /\ direction_flows # <<>> => IsAllOrNothing(direction_flows, path_costs)

\* The objective of the running solve at a path-flow vector: the sum of the
\* cost integrals (equilibrium) or of flow * cost (optimum) over the edges,
\* each edge carrying the flows of the paths that traverse it.
ObjectiveAt(flows, use_marginal) ==
  RSumSeq([n \in 1..Len(network.edges) |->
             IF use_marginal
             THEN RMul(PathSum(flows, network.edges[n].id),
                       evaluate_cost(network.edges[n].cost_function,
                                     PathSum(flows, network.edges[n].id)).v)
             ELSE evaluate_integral(network.edges[n].cost_function,
                                    PathSum(flows, network.edges[n].id)).v])

C11_Step ==
  (InLoop /\ iteration' = iteration + 1) =>
    /\ RLeq(ObjectiveAt(path_flows', UseMarginal), ObjectiveAt(path_flows, UseMarginal))
    /\ path_flows' = path_flows => pc' = DoneOf(pc)

\* C11: with the line search returning a minimiser over [0, 1], the objective
\* of the running solve at the path-flow vector never increases from one
\* iteration to the next, and an iteration that leaves the vector unchanged
\* is the solve's last.
C11_MonotoneDescent == [][C11_Step]_vars

\* An optimum solve whose earlier iterations moved the flows and whose last
\* iteration left them unchanged.
C11_Witness ==
  /\ pc = "so_done"
  /\ stop.so = "converged"
  /\ iteration >= 2
  /\ iteration < MaxIter
  /\ change = Zero
  /\ alpha = Zero

====
